---- MODULE Spec2Model ----
(***************************************************************************)
(* Model of the test-path execution engine of bostontec-stress-test:       *)
(*   - core/test_executor.py   TestExecutor (step dispatch, selector       *)
(*                             resolution, execute_test_run)               *)
(*   - core/test_engine.py     TestEngine (setup_test, run_test)           *)
(*   - core/data_collector.py  DataCollector (telemetry buffers)           *)
(*   - core/browser_manager.py BrowserManager                              *)
(*   - cli.py                  run_test                                    *)
(*   - bostontec_stress_test.py  BostonTecStressTest (the stand-alone      *)
(*                             script: execute_step, execute_test_run,     *)
(*                             run_stress_test)                            *)
(* The page driver (Playwright) is the environment: what it matches and    *)
(* where it faults is chosen nondeterministically.                         *)
(***************************************************************************)
EXTENDS Integers, Sequences, FiniteSets, TLC

\* ------------------------------------------------------------------------
\* Bounds of the model
\* ------------------------------------------------------------------------
\* longest test path
MaxSteps == 2
\* largest usedJSHeapSize / jsHeapSizeLimit reported by the page
MaxBytes == 7
\* most fragments in a console text or URL
MaxWords == 2
\* largest iteration count requested / configured
MaxIterations == 2
\* most elements the driver reports for one selector
MaxMatches == 1
\* most driver calls that fault within one step
MaxFaults == 1
\* most disturbances by the page in a run-set: page events delivered to the
\* listeners (console, network, page error), performance captures that fault,
\* load-state waits that time out, changes of the page's heap and, in
\* TestEngine, screenshots that fault
MaxDisturbances == 1

\* ------------------------------------------------------------------------
\* Step records (the dicts of a test-path JSON file)
\* ------------------------------------------------------------------------
\* a key that the dict does not hold
Missing == "MISSING"

\* the actions the spec's data model names
RecognizedActions == {"click", "type", "scroll", "navigate", "wait", "increment_quantity"}

\* an action no executor knows
Actions == RecognizedActions \cup {"hover"}

\* selector types that occur in step records ("xpath" is known to no executor)
SelectorTypes == {"text", "testid", "composite", "css", "id", "class", "section_product", "xpath"}

\* the 'duration' field of a wait step, by kind of JSON value
Durations == {Missing, "nonneg", "negative", "nonnumeric"}

\* the 'direction' field of a scroll step
Directions == {Missing, "down", "up", "left"}

\* the 'pixels' field of a scroll step, by kind of JSON value
Pixels == {Missing, "number", "text"}

\* actions that resolve an element through selector_type
UsesSelector(a) == a \in {"click", "type", "increment_quantity"}

\* Step records: every combination of name present/absent, action, and the
\* fields the action reads (the others are left out of the dict).
StepRecords ==
    { r \in [ step : {"named", Missing},
              action : Actions \cup {Missing},
              selector_type : SelectorTypes \cup {Missing},
              url : {"url", Missing},
              duration : Durations,
              direction : Directions,
              pixels : Pixels ] :
        /\ (~UsesSelector(r.action) => r.selector_type = Missing)
        /\ (r.action # "navigate" => r.url = Missing)
        /\ (r.action # "wait" => r.duration = Missing)
        /\ (r.action # "scroll" => r.direction = Missing /\ r.pixels = Missing) }

\* ------------------------------------------------------------------------
\* The page driver during one step
\* ------------------------------------------------------------------------
\* driver calls that can raise
FaultPoints == {"wait_for_load_state", "locator", "count", "click", "fill", "goto", "evaluate"}

\* selectors_to_try of TestExecutor._execute_increment_quantity
NumSectionSelectors == 6
\* '[data-testid="increment-button"]' followed by the 5 alt_selectors
NumButtonSelectors == 6

\* the sets of driver calls that raise during one step
FaultSets == { F \in SUBSET FaultPoints : Cardinality(F) <= MaxFaults }

\* matches : elements matching the selector built from the step
\* secHit  : first entry of selectors_to_try that matches (0: none)
\* btnHit  : first increment-button selector matching inside the section
\*           (1: the test-id, 2..6: alt_selectors, 0: none)
\* later   : the section found by secHit holds no increment button, and the
\*           last entry of selectors_to_try matches another section, which
\*           holds the test-id button
\* faults  : the driver calls that raise during this step
\* Only what a step with this action reads varies.
DriverBehaviours(step) ==
    { d \in [ matches : IF UsesSelector(step.action) THEN 0..MaxMatches ELSE {0},
              secHit : IF step.action = "increment_quantity"
                       THEN 0..NumSectionSelectors ELSE {0},
              btnHit : IF step.action = "increment_quantity"
                       THEN 0..NumButtonSelectors ELSE {0},
              later : BOOLEAN,
              faults : FaultSets ] :
        d.later => (0 < d.secHit /\ d.secHit < NumSectionSelectors /\ d.btnHit = 0) }

\* result of a call: what it returns ("True", "False", or "raise" when an
\* exception leaves it) and the driver calls it issued, in order
Res(ret, calls) == [ret |-> ret, calls |-> calls]

\* n copies of the sequence s
RECURSIVE Repeat(_, _)
Repeat(s, n) == IF n <= 0 THEN <<>> ELSE s \o Repeat(s, n - 1)

\* ------------------------------------------------------------------------
\* core/test_executor.py : TestExecutor
\* ------------------------------------------------------------------------
\* selector types with a branch in _locate_element
TE_SelectorTypes == {"text", "testid", "composite", "css", "id", "class"}

\* _locate_element: "locator" (a Locator object, returned whatever the number
\* of matches: `.first` never yields None), "None", or "raise" (the KeyError
\* of step['selector_type'], read before the try)
TE_locate_element(step, d) ==
    IF step.selector_type = Missing THEN Res("raise", <<>>)
    ELSE IF step.selector_type \in TE_SelectorTypes
         THEN IF "locator" \in d.faults
              THEN Res("None", <<"locator">>)
              ELSE Res("locator", <<"locator">>)
         ELSE Res("None", <<>>)

\* element.click() / element.fill() on a Locator: the driver waits for an element and
\* raises (timeout) when none matches, or when the call itself faults
TE_act_on(call, d, calls) ==
    IF d.matches = 0 \/ call \in d.faults
    THEN Res("raise", Append(calls, call))
    ELSE Res("True", Append(calls, call))

\* _execute_click
TE_execute_click(step, d) ==
    LET element == TE_locate_element(step, d)
    IN  IF element.ret = "raise" THEN element
        ELSE IF element.ret = "locator" THEN TE_act_on("click", d, element.calls)
        ELSE Res("False", element.calls)

\* _execute_type
TE_execute_type(step, d) ==
    LET element == TE_locate_element(step, d)
    IN  IF element.ret = "raise" THEN element
        ELSE IF element.ret = "locator" THEN TE_act_on("fill", d, element.calls)
        ELSE Res("False", element.calls)

\* one page.locator(selector) followed by .count()
LocatorCount == <<"locator", "count">>

\* the click on the increment button found: raises when the click faults
TE_click_button(d, calls) ==
    IF "click" \in d.faults
    THEN Res("raise", Append(calls, "click"))
    ELSE Res("True", Append(calls, "click"))

\* variant: only the test-id button is looked for in a section
TE_increment_testid_only(step, d) ==
    IF step.selector_type = Missing THEN Res("raise", <<>>)
    ELSE IF step.selector_type # "section_product" THEN Res("False", <<>>)
    ELSE IF "locator" \in d.faults THEN Res("raise", <<"locator">>)
    ELSE IF "count" \in d.faults THEN Res("raise", LocatorCount)
    ELSE IF d.secHit = 0
         THEN Res("False", Repeat(LocatorCount, NumSectionSelectors))
    ELSE LET upToSection == Repeat(LocatorCount, d.secHit)
         IN  IF d.btnHit = 1
             THEN TE_click_button(d, upToSection \o LocatorCount)
             ELSE Res("False", upToSection \o LocatorCount)

\* _execute_increment_quantity: for each entry of selectors_to_try whose
\* section is found, the test-id button, then the alt_selectors; a section
\* without a button lets the loop go on with the next entry
TE_execute_increment_quantity(step, d) ==
    IF step.selector_type = Missing THEN Res("raise", <<>>)
    ELSE IF step.selector_type # "section_product" THEN Res("False", <<>>)
    ELSE IF "locator" \in d.faults THEN Res("raise", <<"locator">>)
    ELSE IF "count" \in d.faults THEN Res("raise", LocatorCount)
    ELSE IF d.secHit = 0
         THEN Res("False", Repeat(LocatorCount, NumSectionSelectors))
    ELSE LET upToSection == Repeat(LocatorCount, d.secHit)
         IN  IF d.btnHit = 0
             THEN LET missed == upToSection
                                \o Repeat(LocatorCount, NumButtonSelectors)
                                \o Repeat(LocatorCount, NumSectionSelectors - d.secHit)
                  IN  IF d.later
                      THEN TE_click_button(d, missed \o LocatorCount)
                      ELSE Res("False", missed)
             ELSE TE_click_button(d, upToSection \o Repeat(LocatorCount, d.btnHit))

\* _execute_navigate
TE_execute_navigate(step, d) ==
    IF step.url = Missing THEN Res("False", <<>>)
    ELSE IF "goto" \in d.faults THEN Res("raise", <<"goto">>)
    ELSE Res("True", <<"goto">>)

\* _execute_wait: step.get('duration', 1000) / 1000, then time.sleep
TE_execute_wait(step, d) ==
    IF step.duration \in {"nonnumeric", "negative"}
    THEN Res("raise", <<>>)
    ELSE Res("True", <<>>)

\* variant: a direction other than down and up fails the step
TE_scroll_known_directions(step, d) ==
    IF step.direction \in {Missing, "down", "up"}
    THEN IF "evaluate" \in d.faults
         THEN Res("raise", <<"evaluate">>)
         ELSE Res("True", <<"evaluate">>)
    ELSE Res("False", <<>>)

\* _execute_scroll: step.get('direction', 'down'); step.get('pixels', 500)
\* is only formatted into the script text, whatever its type
TE_execute_scroll(step, d) ==
    IF step.direction \in {Missing, "down", "up"}
    THEN IF "evaluate" \in d.faults
         THEN Res("raise", <<"evaluate">>)
         ELSE Res("True", <<"evaluate">>)
    ELSE Res("True", <<>>)

\* the dispatch of execute_step, inside its try
TE_dispatch(step, d) ==
    IF step.step = Missing \/ step.action = Missing THEN Res("raise", <<>>)
    ELSE IF step.action = "click" THEN TE_execute_click(step, d)
    ELSE IF step.action = "increment_quantity" THEN TE_execute_increment_quantity(step, d)
    ELSE IF step.action = "navigate" THEN TE_execute_navigate(step, d)
    ELSE IF step.action = "wait" THEN TE_execute_wait(step, d)
    ELSE IF step.action = "type" THEN TE_execute_type(step, d)
    ELSE IF step.action = "scroll" THEN TE_execute_scroll(step, d)
    ELSE Res("False", <<>>)

\* execute_step: `except Exception` turns every raise into False
TE_execute_step(step, d) ==
    LET r == TE_dispatch(step, d)
    IN  IF r.ret = "raise" THEN Res("False", r.calls) ELSE r

\* ------------------------------------------------------------------------
\* bostontec_stress_test.py : BostonTecStressTest, step level
\* ------------------------------------------------------------------------
\* selector types with a branch in locate_element
BT_SelectorTypes == {"text", "testid", "composite", "section_product"}

\* locate_element: "found" (a selector string) or "None" ((None, None)); the
\* KeyError of step['selector_type'] is raised before its try
BT_locate_element(step, d) ==
    IF step.selector_type = Missing THEN Res("raise", <<>>)
    ELSE IF step.selector_type \in BT_SelectorTypes
         THEN IF "locator" \in d.faults THEN Res("None", <<"locator">>)
              ELSE IF "count" \in d.faults THEN Res("None", LocatorCount)
              ELSE IF d.matches > 0 THEN Res("found", LocatorCount)
              ELSE Res("None", LocatorCount)
         ELSE Res("None", <<>>)

\* the click branch of execute_step
BT_click(step, d) ==
    LET loc == BT_locate_element(step, d)
    IN  IF loc.ret = "raise" THEN loc
        ELSE IF loc.ret = "found"
        THEN LET before == loc.calls \o <<"locator", "element_state", "click">>
             IN  IF "click" \in d.faults
                 THEN Res("raise", before)
                 ELSE Res("True", Append(before, "element_state"))
        ELSE Res("False", loc.calls)

\* the increment_quantity branch of execute_step
BT_increment_quantity(step, d) ==
    LET loc == BT_locate_element(step, d)
    IN  IF loc.ret = "raise" THEN loc
        ELSE IF loc.ret = "found"
        THEN LET probe == loc.calls \o LocatorCount \o LocatorCount
             IN  IF d.btnHit = 1
                 THEN IF "click" \in d.faults
                      THEN Res("raise", Append(probe, "click"))
                      ELSE Res("True", Append(probe, "click"))
                 ELSE Res("False", probe)
        ELSE Res("False", loc.calls)

\* variant: an action without a branch is taken as done
BT_dispatch_unknown_succeeds(step, d) ==
    LET ready == <<"wait_for_load_state">>
        r == IF step.action = "click" THEN BT_click(step, d)
             ELSE IF step.action = "increment_quantity" THEN BT_increment_quantity(step, d)
             ELSE Res("True", <<>>)
    IN  Res(r.ret, ready \o r.calls)

\* the body of execute_step's try: the load-state wait (its fault is
\* swallowed), then the dispatch on action
BT_dispatch(step, d) ==
    LET ready == <<"wait_for_load_state">>
        r == IF step.action = "click" THEN BT_click(step, d)
             ELSE IF step.action = "increment_quantity" THEN BT_increment_quantity(step, d)
             ELSE Res("False", <<>>)
    IN  Res(r.ret, ready \o r.calls)

\* execute_step: step['step'] and step['action'] are read before the try, so
\* their KeyError leaves execute_step; a raise inside the try becomes False
BT_execute_step(step, d) ==
    IF step.step = Missing \/ step.action = Missing THEN Res("raise", <<>>)
    ELSE LET r == BT_dispatch(step, d)
         IN  IF r.ret = "raise" THEN Res("False", r.calls) ELSE r

\* what execute_step can return for a step record, over the behaviours of
\* the driver
TE_Outcomes(step) == { TE_execute_step(step, d).ret : d \in DriverBehaviours(step) }

BT_Outcomes(step) == { BT_execute_step(step, d).ret : d \in DriverBehaviours(step) }

\* ------------------------------------------------------------------------
\* State
\* ------------------------------------------------------------------------
VARIABLES
    impl,            \* "engine": cli.run_test driving TestEngine; "bt": BostonTecStressTest
    pc,              \* position of the controller
    test_steps,      \* TestPath.steps / self.test_steps
    requested,       \* the iterations argument of cli.run_test
    max_iterations,  \* CustomerConfig.max_iterations
    config,          \* CustomerConfig.data_collection
    iterations,      \* the iterations of run_test / self.iterations
    run,             \* run_number / run of the loop (0 before the first)
    stepIdx,         \* step_number / i of the loop in execute_test_run
    success,         \* what execute_test_run returned for the current run
    lists,           \* the list objects of DataCollector / of self.stats
    test_results,    \* TestEngine.test_results
    successful_runs, \* successful_runs
    failed_runs,     \* failed_runs
    total_runs,      \* stats['total_runs'] / summary['total_runs']
    browser,         \* "none", "open", "closed"
    outcome,         \* how the invocation ended
    stepLog,         \* history: the execute_step calls of the current run
    runLog,          \* history: the run numbers whose execute_test_run started
    sealed,          \* history: each RunResult's telemetry when it was appended
    nDisturbances,   \* history: page events delivered and captures that faulted
    cleanRun,        \* history: no telemetry capture of the current run faulted
    shots,           \* history: the page.screenshot calls, in order
    files,           \* which of the configuration files of the invocation exist
    loadTimedOut,    \* history: the load-state wait before the steps timed out
    navFor,          \* history: the run that the last navigation to the target URL preceded
    delays,          \* history: the runs after which the inter-run delay was slept
    performance_degradation,  \* stats['performance_degradation'] of the script
    driverLog,       \* history: what execute_test_run of the script asked of the page in the current run
    js_heap,         \* the page's JS heap, as performance.memory reports it
    verdicts,        \* history: what execute_test_run returned for each run counted, in order
    run_test_calls,  \* the calls of run_test made on the TestEngine object
    unit_step,       \* step-level check: the step record
    unit_drv,        \* step-level check: the driver behaviour
    unit_out,        \* step-level check: what each execute_step did with it
    call_in,         \* function-level checks: the arguments of the call
    call_out         \* function-level checks: what the call did

unitVars == <<unit_step, unit_drv, unit_out, call_in, call_out>>

runVars == <<impl, pc, test_steps, requested, max_iterations, config, iterations,
             run, stepIdx, success, lists, test_results, successful_runs,
             failed_runs, total_runs, browser, outcome, stepLog, runLog, sealed,
             nDisturbances, cleanRun, run_test_calls, verdicts, js_heap, driverLog, performance_degradation, delays, navFor, loadTimedOut, files, shots>>

vars == <<impl, pc, test_steps, requested, max_iterations, config, iterations,
          run, stepIdx, success, lists, test_results, successful_runs,
          failed_runs, total_runs, browser, outcome, stepLog, runLog, sealed,
          nDisturbances, cleanRun, run_test_calls, verdicts, js_heap, driverLog, performance_degradation, delays, navFor, loadTimedOut, files, shots, unit_step, unit_drv, unit_out,
          call_in, call_out>>

\* ------------------------------------------------------------------------
\* BostonTecStressTest.capture_performance_metrics: memory_usage_percent
\* ------------------------------------------------------------------------
\* a float of Python, kept exactly as a fraction; fault: ZeroDivisionError
Fraction(n, d) == [fault |-> FALSE, num |-> n, den |-> d]

ZeroDivisionError == [fault |-> TRUE, num |-> 0, den |-> 1]

\* a / b
Divide(a, b) == IF b = 0 THEN ZeroDivisionError ELSE Fraction(a, b)

\* q * k
Times(q, k) == IF q.fault THEN q ELSE Fraction(q.num * k, q.den)

\* variant: the division is not guarded
memory_usage_percent_unguarded(memory) ==
    Times(Divide(memory.used, memory.limit), 100)

\* (used / limit) * 100 if limit > 0 else 0
memory_usage_percent(memory) ==
    IF memory.limit > 0
    THEN Times(Divide(memory.used, memory.limit), 100)
    ELSE Fraction(0, 1)

\* the memory part of what page.evaluate returns (`|| 0` makes a missing
\* value 0)
MemorySamples == [used : 0..MaxBytes, limit : 0..MaxBytes]

\* a + b
Plus(a, b) ==
    IF a.den = b.den THEN Fraction(a.num + b.num, a.den)
    ELSE Fraction(a.num * b.den + b.num * a.den, a.den * b.den)

\* a - b
Minus(a, b) ==
    IF a.den = b.den THEN Fraction(a.num - b.num, a.den)
    ELSE Fraction(a.num * b.den - b.num * a.den, a.den * b.den)

\* q / k for an integer k > 0
Over(q, k) == Fraction(q.num, q.den * k)

\* q > k for an integer k (denominators are positive)
Exceeds(q, k) == q.num > k * q.den

\* sum(...) of a list of floats
RECURSIVE Sum(_)
Sum(qs) == IF qs = <<>> THEN Fraction(0, 1) ELSE Plus(qs[1], Sum(Tail(qs)))

\* what performance.memory reports in a run-set: a heap in use not at all,
\* or up to its limit
Readings == { [used |-> u, limit |-> MaxBytes] : u \in {0, MaxBytes} }

\* ------------------------------------------------------------------------
\* Telemetry buffers
\* ------------------------------------------------------------------------
\* the four list objects created by DataCollector.__init__ (in the script:
\* the lists of the same names in self.stats)
ListNames == {"console_logs", "network_requests", "performance_metrics", "errors"}

EmptyLists == [n \in ListNames |-> <<>>]

\* a buffered entry: its kind, its step_name (performance entries) and the run
\* in progress when it was captured (run_number of a performance entry, the
\* timestamp of the others)
Entry(kind, label, r) == [kind |-> kind, step_name |-> label, during |-> r]

\* variant: only the performance snapshots are cleared
clear_data_snapshots_only(ls) == [ls EXCEPT !.performance_metrics = <<>>]

\* DataCollector.clear_data: list.clear() on the four list objects
clear_data(ls) == [n \in ListNames |-> <<>>]

\* DataCollector.get_collected_data: a dict whose values are the collector's
\* list objects themselves (references, not copies)
get_collected_data == [n \in ListNames |-> n]

\* the lists a RunResult's data refers to, as they are now
Deref(data) == [n \in DOMAIN data |-> lists[data[n]]]

\* DataCollector.capture_performance_metrics: nothing when tracking is off or
\* page.evaluate faults, else one entry appended
capture_performance_metrics(ls, cfg, r, label, fault) ==
    IF ~cfg.performance_tracking \/ fault THEN ls
    ELSE [ls EXCEPT !.performance_metrics = Append(@, Entry("performance", label, r))]

\* a metrics entry of the script: run context and the derived
\* memory_usage_percent of the reading
BT_Entry(label, r, memory) ==
    [kind |-> "performance", step_name |-> label, during |-> r,
     memory_usage_percent |-> memory_usage_percent(memory)]

\* variant: no snapshot after the page load
BT_capture_without_page_loaded(ls, r, label, fault, memory) ==
    IF fault \/ label = "page_loaded" THEN ls
    ELSE [ls EXCEPT !.performance_metrics = Append(@, BT_Entry(label, r, memory))]

\* BostonTecStressTest.capture_performance_metrics: one entry appended,
\* nothing when page.evaluate faults (the thresholds 60 and 80 only log)
BT_capture_performance_metrics(ls, r, label, fault, memory) ==
    IF fault THEN ls
    ELSE [ls EXCEPT !.performance_metrics = Append(@, BT_Entry(label, r, memory))]

\* [m['memory_usage_percent'] for m in metrics if m['run_number'] == r]
UsageOf(metrics, r) ==
    LET ofRun == SelectSeq(metrics, LAMBDA m : m.during = r)
    IN  [j \in DOMAIN ofRun |-> ofRun[j].memory_usage_percent]

\* sum(...) / len(...)
Mean(qs) == Over(Sum(qs), Len(qs))

\* BostonTecStressTest.detect_performance_degradation: the new
\* stats['performance_degradation']
detect_performance_degradation(metrics, degradation, current_run) ==
    IF current_run < 2 THEN degradation
    ELSE LET current_metrics == UsageOf(metrics, current_run)
             previous_metrics == UsageOf(metrics, current_run - 1)
         IN  IF current_metrics = <<>> \/ previous_metrics = <<>> THEN degradation
             ELSE LET memory_increase == Minus(Mean(current_metrics), Mean(previous_metrics))
                  IN  IF Exceeds(memory_increase, 10)
                      THEN Append(degradation,
                                  [run_number |-> current_run,
                                   current_memory |-> Mean(current_metrics),
                                   previous_memory |-> Mean(previous_metrics)])
                      ELSE degradation

\* variant: the garbage collection is never attempted
needs_gc_never(fault, memory) == FALSE

\* the condition of force_garbage_collection in the loop of execute_test_run:
\* the "after_step" entry of the step exists and reports more than 70
needs_gc(fault, memory) == ~fault /\ Exceeds(memory_usage_percent(memory), 70)

\* the listeners of DataCollector.setup_page_listeners, applied to one event
TE_capture_event(ls, cfg, kind, relevant, r) ==
    IF kind = "console" /\ cfg.error_capture /\ relevant
    THEN [ls EXCEPT !.console_logs = Append(@, Entry("console", "", r))]
    ELSE IF kind = "pageerror" /\ cfg.error_capture
    THEN [ls EXCEPT !.errors = Append(@, Entry("pageerror", "", r))]
    ELSE IF kind = "request" /\ cfg.network_monitoring /\ relevant
    THEN [ls EXCEPT !.network_requests = Append(@, Entry("request", "", r))]
    ELSE ls

\* the listeners of BostonTecStressTest.setup_page_listeners, applied to one
\* event (capture_page_error only logs)
BT_capture_event(ls, kind, relevant, r) ==
    IF kind = "console" /\ relevant
    THEN [ls EXCEPT !.console_logs = Append(@, Entry("console", "", r))]
    ELSE IF kind = "request" /\ relevant
    THEN [ls EXCEPT !.network_requests = Append(@, Entry("request", "", r))]
    ELSE ls

EventKinds == {"console", "request", "pageerror"}

\* data_collection settings: each feature toggle on or off
Configs == [performance_tracking : BOOLEAN, error_capture : BOOLEAN,
            network_monitoring : BOOLEAN]

DefaultConfig == [performance_tracking |-> TRUE, error_capture |-> TRUE,
                  network_monitoring |-> TRUE]

\* ------------------------------------------------------------------------
\* Test paths of the run-set model
\* ------------------------------------------------------------------------
StepOf(name, action, st, dur) ==
    [step |-> name, action |-> action, selector_type |-> st, url |-> Missing,
     duration |-> dur, direction |-> Missing, pixels |-> Missing]

\* a click on a test-id, the same record without its 'step' name, and a wait
PathSteps == { StepOf("named", "click", "testid", Missing),
               StepOf(Missing, "click", "testid", Missing),
               StepOf("named", "wait", Missing, "nonneg") }

Paths == UNION { [1..n -> PathSteps] : n \in 0..MaxSteps }

\* number of faults among the given captures
FaultCount(fs) == Cardinality({i \in DOMAIN fs : fs[i]})

\* variant: the requested count is returned as it is
setup_test_unclamped(req, maxIt) == req

\* TestEngine.setup_test: the iteration count it returns
setup_test(req, maxIt) == IF req > maxIt THEN maxIt ELSE req

\* ------------------------------------------------------------------------
\* Initial states
\* ------------------------------------------------------------------------
\* nothing executed yet
NoOutput == [done |-> FALSE, te |-> Res("none", <<>>), bt |-> Res("none", <<>>)]

UnitIdle ==
    /\ unit_step = StepOf("named", "wait", Missing, Missing)
    /\ unit_drv = [matches |-> 0, secHit |-> 0, btnHit |-> 0, later |-> FALSE, faults |-> {}]
    /\ unit_out = NoOutput
    /\ call_in = "none"
    /\ call_out = "none"

\* the path of the base scenario: one click
BasePath == <<StepOf("named", "click", "testid", Missing)>>

\* Inputs of an invocation of cli.run_test. They vary one group at a time
\* around the base scenario (base path, the largest iteration count requested
\* and allowed, every collector feature on): the test path, or the requested
\* and the configured maximum iteration counts, or the collector settings.
EngineInputs ==
    [test_steps : Paths, requested : {MaxIterations},
     max_iterations : {MaxIterations}, config : {DefaultConfig}]
    \cup
    [test_steps : {BasePath}, requested : 0..(MaxIterations + 1),
     max_iterations : 0..MaxIterations, config : {DefaultConfig}]
    \cup
    [test_steps : {BasePath}, requested : {MaxIterations},
     max_iterations : {MaxIterations}, config : Configs]

\* Inputs of an invocation of the script, the test path and --iterations,
\* varied in the same way
BTInputs ==
    [test_steps : Paths, iterations : {MaxIterations}]
    \cup
    [test_steps : {BasePath}, iterations : 0..MaxIterations]

InitCommon ==
    /\ run = 0
    /\ stepIdx = 0
    /\ success = FALSE
    /\ lists = EmptyLists
    /\ test_results = <<>>
    /\ successful_runs = 0
    /\ failed_runs = 0
    /\ total_runs = 0
    /\ browser = "none"
    /\ outcome = "running"
    /\ stepLog = <<>>
    /\ runLog = <<>>
    /\ sealed = <<>>
    /\ nDisturbances = 0
    /\ cleanRun = TRUE
    /\ run_test_calls = 0
    /\ verdicts = <<>>
    /\ js_heap = [used |-> 0, limit |-> MaxBytes]
    /\ driverLog = <<>>
    /\ performance_degradation = <<>>
    /\ delays = <<>>
    /\ navFor = 0
    /\ loadTimedOut = FALSE
    /\ shots = <<>>

InitEngine ==
    /\ impl = "engine"
    /\ pc = "cli"
    /\ files \in {"ok", "no_customer", "no_test_path"}
    /\ \E in \in EngineInputs :
         /\ test_steps = in.test_steps
         /\ requested = in.requested
         /\ max_iterations = in.max_iterations
         /\ config = in.config
    /\ iterations = 0

InitBT ==
    /\ impl = "bt"
    /\ pc = "bt_init"
    /\ files \in {"ok", "no_test_path"}
    /\ \E in \in BTInputs :
         /\ test_steps = in.test_steps
         /\ iterations = in.iterations
    /\ requested = 0
    /\ max_iterations = 0
    /\ config = DefaultConfig

Init ==
    /\ InitEngine \/ InitBT
    /\ InitCommon
    /\ UnitIdle

\* TestEngine._generate_summary:
\* (successful_runs / total_runs * 100) if total_runs > 0 else 0
summary_success_rate(successful, total) ==
    IF total > 0 THEN Times(Divide(successful, total), 100) ELSE Fraction(0, 1)

\* BostonTecStressTest.print_summary:
\* (stats['successful_runs'] / stats['total_runs']) * 100
print_summary_success_rate(successful, total) ==
    Times(Divide(successful, total), 100)

\* variant: every run is counted as successful
count_run_as_success(ok, successful, failed) ==
    [successful_runs |-> successful + 1, failed_runs |-> failed]

\* `if success: successful_runs += 1 else: failed_runs += 1` of both run
\* loops
count_run(ok, successful, failed) ==
    IF ok THEN [successful_runs |-> successful + 1, failed_runs |-> failed]
    ELSE [successful_runs |-> successful, failed_runs |-> failed + 1]

\* ------------------------------------------------------------------------
\* cli.run_test and TestEngine
\* ------------------------------------------------------------------------
\* ConfigLoader.load_customer_config: FileNotFoundError when the customer's
\* config.yaml does not exist
load_customer_config(fs) == IF fs = "no_customer" THEN "FileNotFoundError" ELSE "ok"

\* variant: a missing test path is not reported
load_test_path_lenient(fs) == "ok"

\* ConfigLoader.load_test_path: FileNotFoundError when the test path's JSON
\* file does not exist
load_test_path(fs) == IF fs = "no_test_path" THEN "FileNotFoundError" ELSE "ok"

\* BostonTecStressTest.load_test_path: the error of open() is logged and
\* raised again
BT_load_test_path(fs) == IF fs = "no_test_path" THEN "FileNotFoundError" ELSE "ok"

\* cli.run_test up to the return of setup_test: the error of a missing
\* customer config or test path leaves setup_test, and run_test reports it
\* and returns None
CliSetup ==
    /\ impl = "engine" /\ pc = "cli"
    /\ IF load_customer_config(files) = "ok" /\ load_test_path(files) = "ok"
       THEN /\ iterations' = setup_test(requested, max_iterations)
            /\ pc' = "run_test"
            /\ outcome' = outcome
       ELSE /\ iterations' = iterations
            /\ pc' = "done"
            /\ outcome' = "setup_error"
    /\ UNCHANGED <<impl, test_steps, requested, max_iterations, config, run,
                   stepIdx, success, lists, test_results, successful_runs,
                   failed_runs, total_runs, browser, stepLog, runLog, sealed,
                   nDisturbances, cleanRun, shots, files, loadTimedOut, navFor, delays, performance_degradation, driverLog, js_heap, verdicts, run_test_calls, unitVars>>

\* BrowserManager.wait_for_page_load: False when the wait times out
wait_for_page_load(timedOut) == IF timedOut THEN "False" ELSE "True"

\* TestEngine.run_test up to the loop: start the browser, set the listeners,
\* navigate (a failed navigation raises, and cli.run_test returns None) and
\* wait for the page load (run_test does not read the result)
EngineStart ==
    /\ impl = "engine" /\ pc = "run_test"
    /\ run_test_calls' = run_test_calls + 1
    /\ browser' = "open"
    /\ navFor' = 1
    /\ successful_runs' = 0
    /\ failed_runs' = 0
    /\ \E navigated, timedOut \in BOOLEAN :
         IF navigated
         THEN /\ pc' = "loop" /\ outcome' = outcome
              /\ nDisturbances + FaultCount(<<timedOut>>) <= MaxDisturbances
              /\ nDisturbances' = nDisturbances + FaultCount(<<timedOut>>)
              /\ loadTimedOut' = (wait_for_page_load(timedOut) = "False")
         ELSE /\ pc' = "done" /\ outcome' = "aborted"
              /\ ~timedOut
              /\ UNCHANGED <<nDisturbances, loadTimedOut>>
    /\ UNCHANGED <<impl, test_steps, requested, max_iterations, config,
                   iterations, run, stepIdx, success, lists, test_results,
                   total_runs, stepLog, runLog, sealed, cleanRun, shots, files, delays, performance_degradation, driverLog, js_heap, verdicts, unitVars>>

\* the head of one iteration of run_test: clear the collector, capture the
\* "start" metrics, enter TestExecutor.execute_test_run
EngineRunBegin ==
    /\ impl = "engine" /\ pc = "loop" /\ run < iterations
    /\ run' = run + 1
    /\ \E fault \in BOOLEAN :
         /\ nDisturbances + FaultCount(<<fault>>) <= MaxDisturbances
         /\ nDisturbances' = nDisturbances + FaultCount(<<fault>>)
         /\ cleanRun' = ~fault
         /\ lists' = capture_performance_metrics(clear_data(lists), config,
                                                 run + 1, "start", fault)
    /\ stepIdx' = 1
    /\ stepLog' = <<>>
    /\ runLog' = Append(runLog, run + 1)
    /\ IF Len(test_steps) = 0
       THEN success' = TRUE /\ pc' = "run_end"
       ELSE success' = success /\ pc' = "steps"
    /\ UNCHANGED <<impl, test_steps, requested, max_iterations, config,
                   iterations, test_results, successful_runs, failed_runs,
                   total_runs, browser, outcome, sealed, shots, files, loadTimedOut, navFor, delays, performance_degradation, driverLog, js_heap, verdicts, run_test_calls, unitVars>>

\* one iteration of the loop of TestExecutor.execute_test_run
EngineStep ==
    /\ impl = "engine" /\ pc = "steps"
    /\ \E ret \in TE_Outcomes(test_steps[stepIdx]) :
         /\ LET r == Res(ret, <<>>)
            IN  /\ stepLog' = Append(stepLog, [i |-> stepIdx, ret |-> r.ret])
                /\ IF r.ret # "True"
                   THEN success' = FALSE /\ pc' = "run_end" /\ stepIdx' = stepIdx
                   ELSE IF stepIdx = Len(test_steps)
                   THEN success' = TRUE /\ pc' = "run_end" /\ stepIdx' = stepIdx
                   ELSE success' = success /\ pc' = pc /\ stepIdx' = stepIdx + 1
    /\ UNCHANGED <<impl, test_steps, requested, max_iterations, config,
                   iterations, run, lists, test_results, successful_runs,
                   failed_runs, total_runs, browser, outcome, runLog, sealed,
                   nDisturbances, cleanRun, shots, files, loadTimedOut, navFor, delays, performance_degradation, driverLog, js_heap, verdicts, run_test_calls, unitVars>>

\* variant: one file name for every run
screenshot_path_unnumbered(r) == <<"run", "_final_state.png">>

\* screenshot_path = f"run_{run_number}_final_state.png"
screenshot_path(r) == <<"run_", r, "_final_state.png">>

\* the RunResult dict built by run_test
RunData(r, ok) ==
    [run_number |-> r, success |-> ok, screenshot |-> screenshot_path(r),
     data |-> get_collected_data]

\* the tail of one iteration of run_test: capture the "end" metrics, take the
\* screenshot (its fault is caught by take_screenshot, whose result run_test
\* does not read), append the RunResult, count the run, sleep (time.sleep(2)
\* is not guarded by the run number)
EngineRunEnd ==
    /\ impl = "engine" /\ pc = "run_end"
    /\ \E fault, shotFault \in BOOLEAN :
         /\ nDisturbances + FaultCount(<<fault, shotFault>>) <= MaxDisturbances
         /\ nDisturbances' = nDisturbances + FaultCount(<<fault, shotFault>>)
         /\ cleanRun' = (cleanRun /\ ~fault)
         /\ lists' = capture_performance_metrics(lists, config, run, "end", fault)
         /\ shots' = Append(shots, [name |-> screenshot_path(run), saved |-> ~shotFault])
    /\ test_results' = Append(test_results, RunData(run, success))
    /\ sealed' = Append(sealed, [n \in ListNames |-> lists'[get_collected_data[n]]])
    /\ LET counted == count_run(success, successful_runs, failed_runs)
       IN  /\ successful_runs' = counted.successful_runs
           /\ failed_runs' = counted.failed_runs
    /\ verdicts' = Append(verdicts, success)
    /\ delays' = Append(delays, run)
    /\ pc' = "loop"
    /\ UNCHANGED <<impl, test_steps, requested, max_iterations, config,
                   iterations, run, stepIdx, success, total_runs, browser,
                   outcome, stepLog, runLog, files, loadTimedOut, navFor, performance_degradation, driverLog, js_heap, run_test_calls, unitVars>>

\* after the loop: close the browser, build the summary; cli.run_test saves
\* the results and prints the summary
EngineFinish ==
    /\ impl = "engine" /\ pc = "loop" /\ run >= iterations
    /\ browser' = "closed"
    /\ total_runs' = successful_runs + failed_runs
    /\ pc' = "done"
    /\ outcome' = "summary"
    /\ UNCHANGED <<impl, test_steps, requested, max_iterations, config,
                   iterations, run, stepIdx, success, lists, test_results,
                   successful_runs, failed_runs, stepLog, runLog, sealed,
                   nDisturbances, cleanRun, shots, files, loadTimedOut, navFor, delays, performance_degradation, driverLog, js_heap, verdicts, run_test_calls, unitVars>>

\* ------------------------------------------------------------------------
\* BostonTecStressTest.run_stress_test
\* ------------------------------------------------------------------------
\* BostonTecStressTest.__init__: the error of load_test_path leaves the
\* constructor, and main reports it
BTConstruct ==
    /\ impl = "bt" /\ pc = "bt_init"
    /\ IF BT_load_test_path(files) = "ok"
       THEN pc' = "bt_start" /\ outcome' = outcome
       ELSE pc' = "done" /\ outcome' = "setup_error"
    /\ UNCHANGED <<impl, test_steps, requested, max_iterations, config,
                   iterations, run, stepIdx, success, lists, test_results,
                   successful_runs, failed_runs, total_runs, browser, stepLog,
                   runLog, sealed, nDisturbances, cleanRun, shots, files, loadTimedOut, navFor, delays, performance_degradation, driverLog, js_heap, verdicts, run_test_calls, unitVars>>

\* launch the browser, open the page, set the listeners
BTLaunch ==
    /\ impl = "bt" /\ pc = "bt_start"
    /\ browser' = "open"
    /\ pc' = "bt_loop"
    /\ UNCHANGED <<impl, test_steps, requested, max_iterations, config,
                   iterations, run, stepIdx, success, lists, test_results,
                   successful_runs, failed_runs, total_runs, outcome, stepLog,
                   runLog, sealed, nDisturbances, cleanRun, shots, files, loadTimedOut, navFor, delays, performance_degradation, driverLog, js_heap, verdicts, run_test_calls, unitVars>>

\* the head of one iteration: page.goto(target_url), outside any except, so
\* its fault leaves the loop through the finally block (which closes the
\* browser) and run_stress_test
BTGoto ==
    /\ impl = "bt" /\ pc = "bt_loop" /\ run < iterations
    /\ run' = run + 1
    /\ navFor' = run + 1
    /\ \E loaded \in BOOLEAN :
         IF loaded
         THEN pc' = "bt_run_start" /\ browser' = browser /\ outcome' = outcome
         ELSE pc' = "done" /\ browser' = "closed" /\ outcome' = "aborted"
    /\ UNCHANGED <<impl, test_steps, requested, max_iterations, config,
                   iterations, stepIdx, success, lists, test_results,
                   successful_runs, failed_runs, total_runs, stepLog, runLog,
                   sealed, nDisturbances, cleanRun, shots, files, loadTimedOut, delays, performance_degradation, driverLog, js_heap, verdicts, run_test_calls, unitVars>>

\* variant: a load-state wait that timed out fails the run
after_load_wait_strict(timedOut) == IF timedOut THEN "raise" ELSE "proceed"

\* the try/except around page.wait_for_load_state in execute_test_run: a
\* timeout is logged as a warning
after_load_wait(timedOut) == "proceed"

\* execute_test_run up to its loop: the "start" metrics, the load-state wait,
\* the settle delay, the "page_loaded" metrics
BTRunStart ==
    /\ impl = "bt" /\ pc = "bt_run_start"
    /\ \E f1, f2, timedOut \in BOOLEAN :
         /\ nDisturbances + FaultCount(<<f1, f2, timedOut>>) <= MaxDisturbances
         /\ nDisturbances' = nDisturbances + FaultCount(<<f1, f2, timedOut>>)
         /\ loadTimedOut' = timedOut
         /\ IF after_load_wait(timedOut) = "proceed"
            THEN /\ cleanRun' = (~f1 /\ ~f2)
                 /\ lists' = BT_capture_performance_metrics(
                                BT_capture_performance_metrics(lists, run, "start", f1, js_heap),
                                run, "page_loaded", f2, js_heap)
                 /\ driverLog' = <<"evaluate:start", "wait_for_load_state",
                                   "evaluate:page_loaded">>
                 /\ pc' = "bt_steps"
                 /\ success' = success
            ELSE /\ ~f2
                 /\ cleanRun' = ~f1
                 /\ lists' = BT_capture_performance_metrics(lists, run, "start", f1, js_heap)
                 /\ driverLog' = <<"evaluate:start", "wait_for_load_state">>
                 /\ pc' = "bt_run_end"
                 /\ success' = FALSE
    /\ stepIdx' = 1
    /\ stepLog' = <<>>
    /\ runLog' = Append(runLog, run)
    /\ UNCHANGED <<impl, test_steps, requested, max_iterations, config,
                   iterations, run, test_results, successful_runs,
                   failed_runs, total_runs, browser, outcome, sealed,
                   files, shots, navFor, delays, performance_degradation, js_heap, verdicts, run_test_calls, unitVars>>

\* variant: the exception of a capture is not caught
capture_outcome_raising(fault) == IF fault THEN "raise" ELSE "metrics"

\* what capture_performance_metrics returns: the metrics, or None after its
\* except has logged the fault
capture_outcome(fault) == IF fault THEN "None" ELSE "metrics"

\* one iteration of the loop of execute_test_run: the "before_step" metrics,
\* execute_step, and after a step that returned True the "after_step"
\* metrics, the degradation check and the garbage-collection attempt (f3:
\* the page.evaluate of force_garbage_collection faulted, which its except
\* logs); False aborts the run,
\* and so does an exception (caught by the except of execute_test_run)
BTStep ==
    /\ impl = "bt" /\ pc = "bt_steps" /\ stepIdx <= Len(test_steps)
    /\ \E ret \in BT_Outcomes(test_steps[stepIdx]), f1, f2, f3 \in BOOLEAN :
         /\ LET r == Res(ret, <<>>)
                before == BT_capture_performance_metrics(lists, run, "before_step", f1, js_heap)
                after == BT_capture_performance_metrics(before, run, "after_step", f2, js_heap)
                asked == driverLog \o <<"evaluate:before_step", "execute_step">>
            IN  IF capture_outcome(f1) = "raise"
                THEN /\ ~f2 /\ ~f3
                     /\ nDisturbances + FaultCount(<<f1>>) <= MaxDisturbances
                     /\ nDisturbances' = nDisturbances + FaultCount(<<f1>>)
                     /\ cleanRun' = FALSE
                     /\ lists' = before
                     /\ driverLog' = Append(driverLog, "evaluate:before_step")
                     /\ success' = FALSE
                     /\ pc' = "bt_run_end"
                     /\ UNCHANGED <<stepIdx, stepLog, performance_degradation>>
                ELSE /\ stepLog' = Append(stepLog, [i |-> stepIdx, ret |-> r.ret])
                     /\ IF r.ret = "True"
                        THEN /\ f3 => needs_gc(f2, js_heap)
                             /\ nDisturbances + FaultCount(<<f1, f2, f3>>) <= MaxDisturbances
                             /\ nDisturbances' = nDisturbances + FaultCount(<<f1, f2, f3>>)
                             /\ cleanRun' = (cleanRun /\ ~f1 /\ ~f2 /\ ~f3)
                             /\ lists' = after
                             /\ performance_degradation' =
                                   detect_performance_degradation(
                                       after.performance_metrics,
                                       performance_degradation, run)
                             /\ driverLog' =
                                   asked \o <<"evaluate:after_step">>
                                         \o IF needs_gc(f2, js_heap) THEN <<"evaluate:gc">>
                                                                ELSE <<>>
                             /\ stepIdx' = stepIdx + 1
                             /\ UNCHANGED <<success, pc>>
                        ELSE /\ ~f2 /\ ~f3
                             /\ nDisturbances + FaultCount(<<f1>>) <= MaxDisturbances
                             /\ nDisturbances' = nDisturbances + FaultCount(<<f1>>)
                             /\ cleanRun' = (cleanRun /\ ~f1)
                             /\ lists' = before
                             /\ driverLog' = asked
                             /\ success' = FALSE
                             /\ pc' = "bt_run_end"
                             /\ stepIdx' = stepIdx
                             /\ UNCHANGED performance_degradation
    /\ UNCHANGED <<impl, test_steps, requested, max_iterations, config,
                   iterations, run, test_results, successful_runs, failed_runs,
                   total_runs, browser, outcome, runLog, sealed,
                   files, shots, loadTimedOut, navFor, delays, js_heap, verdicts, run_test_calls, unitVars>>

\* the end of execute_test_run after the last step: the "completed" metrics,
\* return True
BTRunComplete ==
    /\ impl = "bt" /\ pc = "bt_steps" /\ stepIdx > Len(test_steps)
    /\ \E fault \in BOOLEAN :
         /\ nDisturbances + FaultCount(<<fault>>) <= MaxDisturbances
         /\ nDisturbances' = nDisturbances + FaultCount(<<fault>>)
         /\ cleanRun' = (cleanRun /\ ~fault)
         /\ lists' = BT_capture_performance_metrics(lists, run, "completed", fault, js_heap)
    /\ driverLog' = Append(driverLog, "evaluate:completed")
    /\ success' = TRUE
    /\ pc' = "bt_run_end"
    /\ UNCHANGED <<impl, test_steps, requested, max_iterations, config,
                   iterations, run, stepIdx, test_results, successful_runs,
                   failed_runs, total_runs, browser, outcome, stepLog, runLog,
                   sealed, shots, files, loadTimedOut, navFor, delays, performance_degradation, js_heap, verdicts, run_test_calls, unitVars>>

\* the tail of one iteration: count the run, take the screenshot
\* (page.screenshot is outside any except: its fault leaves run_stress_test
\* through the finally block), sleep when run < self.iterations
BTRunEnd ==
    /\ impl = "bt" /\ pc = "bt_run_end"
    /\ total_runs' = total_runs + 1
    /\ LET counted == count_run(success, successful_runs, failed_runs)
       IN  /\ successful_runs' = counted.successful_runs
           /\ failed_runs' = counted.failed_runs
    /\ verdicts' = Append(verdicts, success)
    /\ \E saved \in BOOLEAN :
         /\ shots' = Append(shots, [name |-> screenshot_path(run), saved |-> saved])
         /\ delays' = IF saved /\ run < iterations THEN Append(delays, run) ELSE delays
         /\ IF saved
            THEN pc' = "bt_loop" /\ browser' = browser /\ outcome' = outcome
            ELSE pc' = "done" /\ browser' = "closed" /\ outcome' = "aborted"
    /\ UNCHANGED <<impl, test_steps, requested, max_iterations, config,
                   iterations, run, stepIdx, success, lists, test_results,
                   stepLog, runLog, sealed, nDisturbances, cleanRun,
                   files, loadTimedOut, navFor, performance_degradation, driverLog, js_heap, run_test_calls, unitVars>>

\* after the loop: the finally block closes the browser, then print_summary
\* (an exception of its division leaves run_stress_test) and
\* save_detailed_data
BTFinish ==
    /\ impl = "bt" /\ pc = "bt_loop" /\ run >= iterations
    /\ browser' = "closed"
    /\ pc' = "done"
    /\ outcome' = IF print_summary_success_rate(successful_runs, total_runs).fault
                  THEN "aborted" ELSE "summary"
    /\ UNCHANGED <<impl, test_steps, requested, max_iterations, config,
                   iterations, run, stepIdx, success, lists, test_results,
                   successful_runs, failed_runs, total_runs, stepLog, runLog,
                   sealed, nDisturbances, cleanRun, shots, files, loadTimedOut, navFor, delays, performance_degradation, driverLog, js_heap, verdicts, run_test_calls, unitVars>>

\* ------------------------------------------------------------------------
\* Page events
\* ------------------------------------------------------------------------
\* the controller is inside, or has just left, a call of the driver with the
\* listeners set: the driver delivers page events during its calls
Delivering ==
    \/ impl = "engine" /\ pc \in {"steps", "run_end"}
    \/ impl = "engine" /\ pc = "loop" /\ run = 0
    \/ impl = "bt" /\ pc \in {"bt_run_start", "bt_steps", "bt_run_end"}

\* a console message, a request or a page error reaches the listeners;
\* `relevant` is the answer of the relevance filter for it
PageEvent ==
    /\ Delivering
    /\ nDisturbances < MaxDisturbances
    /\ nDisturbances' = nDisturbances + 1
    /\ \E kind \in EventKinds, relevant \in BOOLEAN :
         lists' = IF impl = "engine"
                  THEN TE_capture_event(lists, config, kind, relevant, run)
                  ELSE BT_capture_event(lists, kind, relevant, run)
    /\ UNCHANGED <<impl, pc, test_steps, requested, max_iterations, config,
                   iterations, run, stepIdx, success, test_results,
                   successful_runs, failed_runs, total_runs, browser, outcome,
                   stepLog, runLog, sealed, cleanRun, shots, files, loadTimedOut, navFor, delays, performance_degradation, driverLog, js_heap, verdicts, run_test_calls, unitVars>>

\* the heap of the page fills up, or is emptied, while the script runs
HeapChange ==
    /\ impl = "bt" /\ Delivering
    /\ nDisturbances < MaxDisturbances
    /\ nDisturbances' = nDisturbances + 1
    /\ js_heap' \in Readings \ {js_heap}
    /\ UNCHANGED <<impl, pc, test_steps, requested, max_iterations, config,
                   iterations, run, stepIdx, success, lists, test_results,
                   successful_runs, failed_runs, total_runs, browser, outcome,
                   stepLog, runLog, sealed, cleanRun, shots, files, loadTimedOut,
                   navFor, delays, performance_degradation, driverLog, verdicts, run_test_calls, unitVars>>

Next ==
    \/ CliSetup
    \/ EngineStart
    \/ EngineRunBegin
    \/ EngineStep
    \/ EngineRunEnd
    \/ EngineFinish
    \/ BTConstruct
    \/ BTLaunch
    \/ BTGoto
    \/ BTRunStart
    \/ BTStep
    \/ BTRunComplete
    \/ BTRunEnd
    \/ BTFinish
    \/ PageEvent
    \/ HeapChange

Spec == Init /\ [][Next]_vars

\* ------------------------------------------------------------------------
\* TestEngine.run_test called again on the same engine
\* ------------------------------------------------------------------------
\* a second run_test(iterations) on the TestEngine whose first call returned
\* its summary: start_time and the local counters start again, and
\* self.test_results, assigned in __init__ only, is left as it is
EngineRunAgain ==
    /\ impl = "engine" /\ pc = "done" /\ outcome = "summary"
    /\ run_test_calls = 1
    /\ pc' = "run_test"
    /\ outcome' = "running"
    /\ run' = 0
    /\ total_runs' = 0
    /\ UNCHANGED <<impl, test_steps, requested, max_iterations, config,
                   iterations, stepIdx, success, lists, test_results,
                   successful_runs, failed_runs, browser, stepLog, runLog,
                   sealed, nDisturbances, cleanRun, shots, files, loadTimedOut,
                   navFor, delays, performance_degradation, driverLog, js_heap,
                   verdicts, run_test_calls, unitVars>>

InitAgain ==
    /\ InitEngine
    /\ InitCommon
    /\ UnitIdle

NextAgain ==
    \/ CliSetup
    \/ EngineStart
    \/ EngineRunBegin
    \/ EngineStep
    \/ EngineRunEnd
    \/ EngineFinish
    \/ PageEvent
    \/ EngineRunAgain

SpecAgain == InitAgain /\ [][NextAgain]_vars

\* ------------------------------------------------------------------------
\* execute_step on its own: one step record, one behaviour of the driver,
\* given to TestExecutor.execute_step and to BostonTecStressTest.execute_step
\* ------------------------------------------------------------------------
InitStep ==
    /\ impl = "unit"
    /\ pc = "unit"
    /\ test_steps = <<>>
    /\ requested = 0
    /\ max_iterations = 0
    /\ config = DefaultConfig
    /\ iterations = 0
    /\ files = "ok"
    /\ InitCommon
    /\ unit_step \in StepRecords
    /\ unit_drv \in DriverBehaviours(unit_step)
    /\ unit_out = NoOutput
    /\ call_in = "none"
    /\ call_out = "none"

ExecuteStep ==
    /\ pc = "unit"
    /\ ~unit_out.done
    /\ unit_out' = [done |-> TRUE,
                    te |-> TE_execute_step(unit_step, unit_drv),
                    bt |-> BT_execute_step(unit_step, unit_drv)]
    /\ UNCHANGED <<runVars, unit_step, unit_drv, call_in, call_out>>

NextStep == ExecuteStep

SpecStep == InitStep /\ [][NextStep]_vars

\* ------------------------------------------------------------------------
\* Function-level checks: one call of a function, its arguments drawn by the
\* initial state
\* ------------------------------------------------------------------------
\* the controller is not running: only the function under check is called
Harness(p) ==
    /\ impl = p
    /\ pc = p
    /\ test_steps = <<>>
    /\ requested = 0
    /\ max_iterations = 0
    /\ config = DefaultConfig
    /\ iterations = 0
    /\ files = "ok"
    /\ InitCommon
    /\ unit_step = StepOf("named", "wait", Missing, Missing)
    /\ unit_drv = [matches |-> 0, secHit |-> 0, btnHit |-> 0, later |-> FALSE, faults |-> {}]
    /\ unit_out = NoOutput

\* no call made yet
NoCall == [done |-> FALSE]

\* ------------------------------------------------------------------------
\* One call of memory_usage_percent
\* ------------------------------------------------------------------------
InitSample ==
    /\ Harness("sample")
    /\ call_in \in MemorySamples
    /\ call_out = NoCall

\* the derived field of the metrics entry of capture_performance_metrics
CaptureSample ==
    /\ pc = "sample"
    /\ ~call_out.done
    /\ call_out' = [done |-> TRUE, memory_usage_percent |-> memory_usage_percent(call_in)]
    /\ UNCHANGED <<runVars, unit_step, unit_drv, unit_out, call_in>>

NextSample == CaptureSample

SpecSample == InitSample /\ [][NextSample]_vars

\* ------------------------------------------------------------------------
\* Relevance categories of console texts and URLs
\* ------------------------------------------------------------------------
\* fragments a console text or a URL is made of
Fragments == {"Zoovu.com", "PDF", "product", "image", "error", "warning",
              "memory", "api", ".js", "lead", "hello"}

\* a text: the fragments that occur in it
Texts == { t \in SUBSET Fragments : Cardinality(t) <= MaxWords }

\* str.lower() of a fragment
Lower(w) ==
    CASE w = "Zoovu.com" -> "zoovu.com"
      [] w = "PDF" -> "pdf"
      [] OTHER -> w

\* the keywords that are substrings of a lower-case fragment
Substrings(w) == IF w = "zoovu.com" THEN {"zoovu.com", "zoovu"} ELSE {w}

\* any(keyword in text.lower() for keyword in keywords)
AnyIn(keywords, text) ==
    \E w \in text : Substrings(Lower(w)) \cap keywords # {}

ZoovuDomains == {"zoovu.com", "barracuda-cdn.zoovu.com",
                 "orca-exd-global-components.zoovu.com",
                 "zoovu-components-library.zoovu.com"}

\* variant: the pdf rule is tried before the zoovu rule
BT_console_pdf_first(text) ==
    IF AnyIn({"canvas", "webgl", "memory", "heap", "allocation", "blob", "pdf"}, text)
    THEN "pdf_generation"
    ELSE IF AnyIn(ZoovuDomains, text)
    THEN "zoovu_error"
    ELSE IF AnyIn({"configurator", "product", "summary", "parameters", "uselazyloading"}, text)
    THEN "configurator_error"
    ELSE IF AnyIn({"failed to load resource", "image", "screenshot", "render"}, text)
    THEN "image_loading"
    ELSE "other"

\* BostonTecStressTest._get_console_log_relevance
BT_get_console_log_relevance(text) ==
    IF AnyIn(ZoovuDomains, text)
    THEN "zoovu_error"
    ELSE IF AnyIn({"canvas", "webgl", "memory", "heap", "allocation", "blob", "pdf"}, text)
    THEN "pdf_generation"
    ELSE IF AnyIn({"configurator", "product", "summary", "parameters", "uselazyloading"}, text)
    THEN "configurator_error"
    ELSE IF AnyIn({"failed to load resource", "image", "screenshot", "render"}, text)
    THEN "image_loading"
    ELSE "other"

\* BostonTecStressTest._get_network_request_relevance
BT_get_network_request_relevance(url) ==
    IF AnyIn(ZoovuDomains, url)
    THEN "zoovu_request"
    ELSE IF AnyIn({"pdf", "canvas", "blob", "screenshot", "render", "export"}, url)
    THEN "pdf_generation"
    ELSE IF AnyIn({"image", "asset", "static", "media"}, url)
    THEN "image_loading"
    ELSE IF AnyIn({"email", "lead", "form", "submit", "contact"}, url)
    THEN "lead_generation"
    ELSE "other"

\* variant: the category depends on what the collector holds
DC_console_by_history(text) ==
    IF lists.console_logs # <<>> THEN "other"
    ELSE IF AnyIn({"error", "exception", "failed"}, text) THEN "error"
    ELSE IF AnyIn({"warning", "deprecated"}, text) THEN "warning"
    ELSE IF AnyIn({"memory", "leak", "gc"}, text) THEN "memory"
    ELSE IF AnyIn({"pdf", "canvas", "blob"}, text) THEN "pdf_generation"
    ELSE "other"

\* DataCollector._get_console_log_relevance
DC_get_console_log_relevance(text) ==
    IF AnyIn({"error", "exception", "failed"}, text) THEN "error"
    ELSE IF AnyIn({"warning", "deprecated"}, text) THEN "warning"
    ELSE IF AnyIn({"memory", "leak", "gc"}, text) THEN "memory"
    ELSE IF AnyIn({"pdf", "canvas", "blob"}, text) THEN "pdf_generation"
    ELSE "other"

\* DataCollector._get_network_request_relevance
DC_get_network_request_relevance(url) ==
    IF AnyIn({"api"}, url) THEN "api_request"
    ELSE IF AnyIn({"zoovu"}, url) THEN "zoovu_request"
    ELSE IF AnyIn({".js", ".css", ".png", ".jpg", ".gif"}, url) THEN "resource_request"
    ELSE "navigation_request"

Classifiers == {"BT_console", "BT_network", "DC_console", "DC_network"}

\* the category the named classifier gives the text
Relevance(classifier, text) ==
    CASE classifier = "BT_console" -> BT_get_console_log_relevance(text)
      [] classifier = "BT_network" -> BT_get_network_request_relevance(text)
      [] classifier = "DC_console" -> DC_get_console_log_relevance(text)
      [] classifier = "DC_network" -> DC_get_network_request_relevance(text)

\* the rules of a classifier in the order it tries them
Rules(classifier) ==
    CASE classifier = "BT_console" ->
           << [keywords |-> ZoovuDomains, category |-> "zoovu_error"],
              [keywords |-> {"canvas", "webgl", "memory", "heap", "allocation", "blob", "pdf"},
               category |-> "pdf_generation"],
              [keywords |-> {"configurator", "product", "summary", "parameters", "uselazyloading"},
               category |-> "configurator_error"],
              [keywords |-> {"failed to load resource", "image", "screenshot", "render"},
               category |-> "image_loading"] >>
      [] classifier = "BT_network" ->
           << [keywords |-> ZoovuDomains, category |-> "zoovu_request"],
              [keywords |-> {"pdf", "canvas", "blob", "screenshot", "render", "export"},
               category |-> "pdf_generation"],
              [keywords |-> {"image", "asset", "static", "media"},
               category |-> "image_loading"],
              [keywords |-> {"email", "lead", "form", "submit", "contact"},
               category |-> "lead_generation"] >>
      [] classifier = "DC_console" ->
           << [keywords |-> {"error", "exception", "failed"}, category |-> "error"],
              [keywords |-> {"warning", "deprecated"}, category |-> "warning"],
              [keywords |-> {"memory", "leak", "gc"}, category |-> "memory"],
              [keywords |-> {"pdf", "canvas", "blob"}, category |-> "pdf_generation"] >>
      [] classifier = "DC_network" ->
           << [keywords |-> {"api"}, category |-> "api_request"],
              [keywords |-> {"zoovu"}, category |-> "zoovu_request"],
              [keywords |-> {".js", ".css", ".png", ".jpg", ".gif"},
               category |-> "resource_request"] >>

\* the category of a text that matches no rule
DefaultCategory(classifier) ==
    IF classifier = "DC_network" THEN "navigation_request" ELSE "other"

\* the rules the text matches
Matching(classifier, text) ==
    { i \in DOMAIN Rules(classifier) : AnyIn(Rules(classifier)[i].keywords, text) }

InitClassify ==
    /\ Harness("classify")
    /\ call_in \in [classifier : Classifiers, text : Texts]
    /\ call_out = [done |-> FALSE, categories |-> <<>>]

\* the classifier is called on the text (a first and a second time); stored:
\* how many events had reached the collector before the call
ClassifyText ==
    /\ pc = "classify"
    /\ Len(call_out.categories) < 2
    /\ call_out' = [done |-> TRUE,
                    categories |-> Append(call_out.categories,
                       [category |-> Relevance(call_in.classifier, call_in.text),
                        stored |-> nDisturbances])]
    /\ UNCHANGED <<runVars, unit_step, unit_drv, unit_out, call_in>>

\* another event reaches the listeners and is stored
OtherEvent ==
    /\ pc = "classify"
    /\ nDisturbances < MaxDisturbances
    /\ nDisturbances' = nDisturbances + 1
    /\ \E kind \in EventKinds :
         lists' = IF call_in.classifier \in {"DC_console", "DC_network"}
                  THEN TE_capture_event(lists, config, kind, TRUE, run)
                  ELSE BT_capture_event(lists, kind, TRUE, run)
    /\ UNCHANGED <<impl, pc, test_steps, requested, max_iterations, config,
                   iterations, run, stepIdx, success, test_results,
                   successful_runs, failed_runs, total_runs, browser, outcome,
                   stepLog, runLog, sealed, cleanRun, files, shots,
                   loadTimedOut, navFor, delays, performance_degradation,
                   driverLog, js_heap, verdicts, run_test_calls, unitVars>>

NextClassify == ClassifyText \/ OtherEvent

SpecClassify == InitClassify /\ [][NextClassify]_vars

\* ------------------------------------------------------------------------
\* ConfigLoader._merge_configs
\* ------------------------------------------------------------------------
\* Dict objects live in a heap (a sequence; an object's id is its index). A
\* value held by a dict is a scalar, tagged with the file it was read from, or
\* a reference to a dict object.
Scalar(origin) == [tag |-> "scalar", origin |-> origin]

DictRef(id) == [tag |-> "dict", id |-> id]

\* d[k] = v
Put(d, k, v) == [x \in DOMAIN d \cup {k} |-> IF x = k THEN v ELSE d[x]]

\* variant: the global dict is not copied before the customer's keys are set
RECURSIVE merge_configs_in_place(_, _, _)
merge_configs_in_place(heap, global_config, customer_config) ==
    LET RECURSIVE Items(_, _)
        Items(h, keys) ==
            IF keys = {} THEN [heap |-> h, id |-> global_config]
            ELSE LET key == CHOOSE k \in keys : TRUE
                     value == h[customer_config][key]
                 IN  IF /\ key \in DOMAIN h[global_config]
                        /\ h[global_config][key].tag = "dict"
                        /\ value.tag = "dict"
                     THEN LET r == merge_configs_in_place(h, h[global_config][key].id, value.id)
                          IN  Items([r.heap EXCEPT ![global_config] = Put(@, key, DictRef(r.id))],
                                    keys \ {key})
                     ELSE Items([h EXCEPT ![global_config] = Put(@, key, value)], keys \ {key})
    IN  Items(heap, DOMAIN heap[customer_config])

\* _merge_configs: merged = global_config.copy() (a new dict object holding
\* the same values), then the loop over customer_config.items(); the result
\* is the heap after the call and the id of merged
RECURSIVE merge_configs(_, _, _)
merge_configs(heap, global_config, customer_config) ==
    LET copied == Append(heap, heap[global_config])
        merged == Len(copied)
        RECURSIVE Items(_, _)
        Items(h, keys) ==
            IF keys = {} THEN [heap |-> h, id |-> merged]
            ELSE LET key == CHOOSE k \in keys : TRUE
                     value == h[customer_config][key]
                 IN  IF /\ key \in DOMAIN h[merged]
                        /\ h[merged][key].tag = "dict"
                        /\ value.tag = "dict"
                     THEN LET r == merge_configs(h, h[merged][key].id, value.id)
                          IN  Items([r.heap EXCEPT ![merged] = Put(@, key, DictRef(r.id))],
                                    keys \ {key})
                     ELSE Items([h EXCEPT ![merged] = Put(@, key, value)], keys \ {key})
    IN  Items(copied, DOMAIN heap[customer_config])

\* keys of the configuration files: top level, and inside a section
TopKeys == {"browser", "max_iterations"}

SectionKeys == {"headless", "timeout"}

\* what a file gives a top-level key: nothing, a scalar, or a section
Shapes == {"absent", "scalar", "section"}

\* objects of the heap before the merge: the two top-level dicts, then one
\* section object per file and top-level key
GlobalId == 1

CustomerId == 2

SectionId(origin, key) ==
    (IF origin = "global" THEN 2 ELSE 4) + (IF key = "browser" THEN 1 ELSE 2)

\* the top-level dict of a file with the given shapes
TopDict(origin, shape) ==
    [k \in {x \in TopKeys : shape[x] # "absent"} |->
        IF shape[k] = "scalar" THEN Scalar(origin) ELSE DictRef(SectionId(origin, k))]

\* a section of a file holding the given keys
SectionDict(origin, keys) == [k \in keys |-> Scalar(origin)]

\* the configurations as yaml.safe_load returns them: a section that a file
\* does not have is left empty
ConfigHeaps ==
    { << TopDict("global", in.gshape), TopDict("customer", in.cshape),
         SectionDict("global", in.g1), SectionDict("global", in.g2),
         SectionDict("customer", in.c1), SectionDict("customer", in.c2) >> :
      in \in { i \in [gshape : [TopKeys -> Shapes], cshape : [TopKeys -> Shapes],
                      g1 : SUBSET SectionKeys, g2 : SUBSET SectionKeys,
                      c1 : SUBSET SectionKeys, c2 : SUBSET SectionKeys] :
               /\ i.gshape["browser"] # "section" => i.g1 = {}
               /\ i.gshape["max_iterations"] # "section" => i.g2 = {}
               /\ i.cshape["browser"] # "section" => i.c1 = {}
               /\ i.cshape["max_iterations"] # "section" => i.c2 = {} } }

\* the content of a dict object with the sections it refers to written out
Content(heap, id) ==
    [k \in DOMAIN heap[id] |->
        IF heap[id][k].tag = "dict"
        THEN [tag |-> "dict", items |-> heap[heap[id][k].id]]
        ELSE heap[id][k]]

InitMerge ==
    /\ Harness("merge")
    /\ call_in \in [heap : ConfigHeaps]
    /\ call_out = NoCall

\* load_customer_config: merged_config = self._merge_configs(self.global_config,
\* customer_config)
MergeConfigs ==
    /\ pc = "merge"
    /\ ~call_out.done
    /\ LET r == merge_configs(call_in.heap, GlobalId, CustomerId)
       IN  call_out' = [done |-> TRUE, heap |-> r.heap, merged |-> r.id]
    /\ UNCHANGED <<runVars, unit_step, unit_drv, unit_out, call_in>>

NextMerge == MergeConfigs

SpecMerge == InitMerge /\ [][NextMerge]_vars

\* ------------------------------------------------------------------------
\* Properties
\* ------------------------------------------------------------------------
\* the run-set is over: control has returned to the caller
Returned == pc = "done"

\* execute_test_run of the current run has returned
RunOver ==
    \/ impl = "engine" /\ pc = "run_end"
    \/ impl = "bt" /\ pc = "bt_run_end"

\* the performance snapshots buffered for run r
Snapshots(r) ==
    SelectSeq(lists.performance_metrics, LAMBDA e : e.during = r)

\* the labels of the snapshots of a run of the script whose n steps all
\* succeeded
BT_SnapshotLabels(n) ==
    <<"start", "page_loaded">> \o Repeat(<<"before_step", "after_step">>, n)
                               \o <<"completed">>

\* the driver calls that act on the page
ActingCalls == {"click", "fill", "goto", "evaluate"}

\* C1: execute_test_run calls execute_step on the steps in path order, goes
\* on only after a step that returned true, reports a failed run when a step
\* returned false, and when no step returned false has invoked every step
\* and reports a successful run.
C1_FailFast ==
    /\ \A j \in DOMAIN stepLog : stepLog[j].i = j
    /\ \A j \in DOMAIN stepLog : j < Len(stepLog) => stepLog[j].ret = "True"
    /\ RunOver =>
         IF \E j \in DOMAIN stepLog : stepLog[j].ret = "False"
         THEN ~success
         ELSE success /\ Len(stepLog) = Len(test_steps)

\* C2 as stated: a run whose N steps all succeed, with no capture fault,
\* has captured exactly 2N+2 performance snapshots.
C2_SnapshotCount2N2 ==
    /\ (impl = "bt" /\ pc = "bt_run_end" /\ success /\ cleanRun)
         => Len(Snapshots(run)) = 2 * Len(test_steps) + 2
    /\ (impl = "engine" /\ pc = "loop" /\ run >= 1 /\ success /\ cleanRun)
         => Len(Snapshots(run)) = 2 * Len(test_steps) + 2

\* C2 amended: with no capture fault, a run of BostonTecStressTest whose N
\* steps all succeed has captured exactly 2N+3 snapshots (start, page_loaded,
\* before and after each step, completed), and a run of TestEngine exactly 2
\* (start, end) when performance tracking is on and none when it is off.
C2_SnapshotCount ==
    /\ (impl = "bt" /\ pc = "bt_run_end" /\ success /\ cleanRun)
         => /\ Len(Snapshots(run)) = 2 * Len(test_steps) + 3
            /\ [j \in DOMAIN Snapshots(run) |-> Snapshots(run)[j].step_name]
                 = BT_SnapshotLabels(Len(test_steps))
    /\ (impl = "engine" /\ pc = "loop" /\ run >= 1 /\ success /\ cleanRun)
         => Len(Snapshots(run)) = IF config.performance_tracking THEN 2 ELSE 0

\* C2 witness: a run of the script over a path of two steps ended with
\* success and no capture fault
C2_Witness ==
    /\ impl = "bt" /\ pc = "bt_run_end" /\ success /\ cleanRun
    /\ Len(test_steps) >= 2
    /\ Len(Snapshots(run)) = 2 * Len(test_steps) + 3

\* C3: the runs of a run-set of n iterations are started in the order 1, 2,
\* ..., and when the run-set has returned exactly n runs have been executed.
C3_RunsInOrder ==
    /\ \A j \in DOMAIN runLog : runLog[j] = j
    /\ (Returned /\ outcome # "setup_error") => Len(runLog) = iterations

\* C4: execute_step returns a boolean for every step record and every
\* behaviour of the driver, never an exception, and the boolean is false
\* when a call that acts on the page faulted.
C4_NeverRaises ==
    unit_out.done =>
        /\ unit_out.te.ret \in {"True", "False"}
        /\ unit_out.bt.ret \in {"True", "False"}
        /\ \A o \in {unit_out.te, unit_out.bt} :
             (\E j \in DOMAIN o.calls :
                 o.calls[j] \in ActingCalls /\ o.calls[j] \in unit_drv.faults)
                => o.ret = "False"

\* C5 as stated: for an action outside the recognized set execute_step
\* returns failure and issues no call to the page driver.
C5_UnknownActionNoDriverCall ==
    (unit_out.done /\ unit_step.action \notin RecognizedActions) =>
        /\ unit_out.te = Res("False", <<>>)
        /\ unit_out.bt = Res("False", <<>>)

\* C5 amended: for an action outside the recognized set execute_step never
\* returns success and issues no lookup, click, fill, navigation or script
\* evaluation: TestExecutor returns failure with no driver call, and
\* BostonTecStressTest issues its load-state wait before the dispatch, and
\* nothing else, when the record has both its 'step' and 'action' fields.
C5_UnknownActionFails ==
    (unit_out.done /\ unit_step.action \notin RecognizedActions) =>
        /\ unit_out.te = Res("False", <<>>)
        /\ unit_out.bt.ret # "True"
        /\ unit_out.bt.calls =
             IF unit_step.step # Missing /\ unit_step.action # Missing
             THEN <<"wait_for_load_state">> ELSE <<>>

\* C5 witness: a named step with the action "hover" has been executed
C5_Witness ==
    /\ unit_out.done
    /\ unit_step.step # Missing
    /\ unit_step.action = "hover"
    /\ unit_out.bt = Res("False", <<"wait_for_load_state">>)

\* C6: when the selector of a step matches no element, the lookup returns
\* "not found", no click or fill is attempted and the step fails.
C6_ZeroMatchesNotFound ==
    (/\ unit_out.done
     /\ unit_drv.matches = 0
     /\ unit_step.step # Missing
     /\ unit_step.selector_type # Missing) =>
        /\ unit_step.action \in {"click", "type"} =>
             /\ TE_locate_element(unit_step, unit_drv).ret = "None"
             /\ \A j \in DOMAIN unit_out.te.calls :
                  unit_out.te.calls[j] \notin {"click", "fill"}
             /\ unit_out.te.ret = "False"
        /\ unit_step.action \in {"click", "increment_quantity"} =>
             /\ BT_locate_element(unit_step, unit_drv).ret = "None"
             /\ \A j \in DOMAIN unit_out.bt.calls :
                  unit_out.bt.calls[j] \notin {"click", "fill"}
             /\ unit_out.bt.ret = "False"

\* C7: once setup_test has succeeded the iteration count is the smaller of
\* the requested count and the customer's max_iterations, and cli.run_test
\* never starts more runs than max_iterations.
C7_IterationsClamped ==
    impl = "engine" =>
        /\ (pc # "cli" /\ outcome # "setup_error")
             => iterations = IF requested <= max_iterations
                             THEN requested ELSE max_iterations
        /\ Len(runLog) <= max_iterations

\* C7 witness: more iterations were requested than allowed, and the run-set
\* ran max_iterations runs and reported its summary
C7_Witness ==
    /\ impl = "engine" /\ Returned /\ outcome = "summary"
    /\ requested > max_iterations
    /\ max_iterations > 0
    /\ Len(runLog) = max_iterations

\* C8: the telemetry of the RunResult of run i holds only entries captured
\* during run i when it is recorded, and never an entry captured during an
\* earlier run.
C8_NoEarlierTelemetry ==
    impl = "engine" =>
        \A i \in DOMAIN test_results : \A n \in ListNames :
            /\ \A j \in DOMAIN sealed[i][n] :
                 sealed[i][n][j].during = test_results[i].run_number
            /\ \A j \in DOMAIN Deref(test_results[i].data)[n] :
                 Deref(test_results[i].data)[n][j].during >= test_results[i].run_number

\* C8 witness: run 1 recorded a console entry and run 2 was recorded with
\* its own snapshots
C8_Witness ==
    /\ impl = "engine"
    /\ Len(test_results) >= 2
    /\ sealed[1].console_logs # <<>>
    /\ Deref(test_results[2].data).performance_metrics # <<>>

\* C9: a RunResult appended to test_results keeps the content it had when it
\* was appended, its telemetry included.
C9_RunResultImmutable ==
    impl = "engine" =>
        \A i \in DOMAIN test_results :
            /\ test_results[i].run_number = i
            /\ Deref(test_results[i].data) = sealed[i]

\* C10: once setup has succeeded, the run-set returns with its summary
\* reported and every one of its iterations counted as a successful or a
\* failed run.
C10_RunSetCompletes ==
    (Returned /\ outcome # "setup_error") =>
        /\ outcome = "summary"
        /\ successful_runs + failed_runs = iterations

\* C11: every run, successful or failed, is followed by exactly one
\* page.screenshot call, issued before the next run starts and before the
\* run-set returns, under the name built from the run's number; the names of
\* the runs of a run-set are pairwise distinct, and the RunResult of
\* TestEngine records that name.
C11_OneScreenshotPerRun ==
    /\ \A j \in DOMAIN shots : shots[j].name = <<"run_", runLog[j], "_final_state.png">>
    /\ \A j, k \in DOMAIN shots : j # k => shots[j].name # shots[k].name
    /\ Len(shots) <= Len(runLog)
    /\ Len(runLog) <= Len(shots) + 1
    /\ pc \in {"loop", "bt_loop", "done"} => Len(shots) = Len(runLog)
    /\ \A j \in DOMAIN test_results : test_results[j].screenshot = shots[j].name

\* C11 witness: a failed run and then a successful run, each followed by its
\* screenshot
C11_Witness ==
    /\ Len(shots) = 2
    /\ shots[1].saved /\ shots[2].saved
    /\ failed_runs = 1 /\ successful_runs = 1
    /\ runLog = <<1, 2>>

\* C12: when the customer configuration or the test path does not exist,
\* setup ends with the error reported to the caller, and no browser is
\* started and no run begun at any point of the invocation.
C12_MissingConfigFailsSetup ==
    files # "ok" =>
        /\ browser = "none"
        /\ runLog = <<>>
        /\ pc \in {"cli", "bt_init", "done"}
        /\ Returned => outcome = "setup_error"

\* C12 witness: cli.run_test has returned after setup_test found no test path
C12_Witness ==
    /\ impl = "engine" /\ files = "no_test_path"
    /\ Returned /\ outcome = "setup_error"

\* C13: for a sample with non-negative used and limit, the stored
\* memory_usage_percent is computed without a division fault, is
\* non-negative, equals used / limit * 100 when limit > 0 and is 0 when
\* limit is 0.
C13_MemoryPercent ==
    (pc = "sample" /\ call_out.done) =>
        LET q == call_out.memory_usage_percent
        IN  /\ ~q.fault
            /\ q.den > 0 /\ q.num >= 0
            /\ call_in.limit > 0 => q.num * call_in.limit = call_in.used * 100 * q.den
            /\ call_in.limit = 0 => q.num = 0

\* C13 witness: a sample with used > 0 and limit = 0 has been stored with 0
C13_Witness ==
    /\ pc = "sample" /\ call_out.done
    /\ call_in.used > 0 /\ call_in.limit = 0
    /\ call_out.memory_usage_percent = Fraction(0, 1)

C15_LoadTimeoutNotFailure ==
    RunOver =>
        /\ success = (/\ Len(stepLog) = Len(test_steps)
                      /\ \A j \in DOMAIN stepLog : stepLog[j].ret = "True")
        /\ (loadTimedOut /\ Len(test_steps) > 0) => Len(stepLog) >= 1

\* C15 witness: a run of the script whose load-state wait timed out ended
\* successfully after its steps
C15_Witness ==
    /\ impl = "bt" /\ pc = "bt_run_end"
    /\ loadTimedOut
    /\ Len(test_steps) >= 1
    /\ success

C17_CustomerOverridesGlobal ==
    (pc = "merge" /\ call_out.done) =>
        LET G == Content(call_in.heap, GlobalId)
            C == Content(call_in.heap, CustomerId)
            M == Content(call_out.heap, call_out.merged)
        IN  /\ DOMAIN M = DOMAIN G \cup DOMAIN C
            /\ \A k \in DOMAIN M :
                 IF k \notin DOMAIN C THEN M[k] = G[k]
                 ELSE IF k \in DOMAIN G /\ G[k].tag = "dict" /\ C[k].tag = "dict"
                 THEN /\ M[k].tag = "dict"
                      /\ DOMAIN M[k].items = DOMAIN G[k].items \cup DOMAIN C[k].items
                      /\ \A j \in DOMAIN M[k].items :
                           M[k].items[j] = IF j \in DOMAIN C[k].items
                                           THEN C[k].items[j] ELSE G[k].items[j]
                 ELSE M[k] = C[k]
            /\ \A i \in DOMAIN call_in.heap : call_out.heap[i] = call_in.heap[i]

\* C17 witness: both files have a browser section, the customer's overriding
\* one key of it and leaving the other to the global default
C17_Witness ==
    /\ pc = "merge" /\ call_out.done
    /\ LET M == Content(call_out.heap, call_out.merged)
       IN  /\ "browser" \in DOMAIN M
           /\ M["browser"].tag = "dict"
           /\ DOMAIN M["browser"].items = {"headless", "timeout"}
           /\ M["browser"].items["headless"] = Scalar("customer")
           /\ M["browser"].items["timeout"] = Scalar("global")

\* C18: no step of run i is executed before the navigation to the target
\* URL has been issued for run i: while the steps of a run are executed, and
\* when they are over, the last navigation is the one of this run.
C18_EachRunNavigates ==
    (pc \in {"steps", "bt_steps"} \/ RunOver) => navFor = run

\* C19: the inter-run delay is slept after run i for every i < n, before run
\* i+1 starts, and is not slept after the final run n.
C19_DelayBetweenRunsOnly ==
    /\ \A j \in DOMAIN delays : delays[j] = j /\ delays[j] < iterations
    /\ (pc \in {"loop", "bt_loop"} /\ run < iterations) => Len(delays) = run

\* C20 as stated: the category of a text is that of the earliest rule it
\* matches, and "other" when it matches no rule, for every classifier.
C20_FirstMatchElseOther ==
    pc = "classify" =>
        \A k \in DOMAIN call_out.categories :
            LET c == call_in.classifier
                m == Matching(c, call_in.text)
            IN  call_out.categories[k].category =
                  IF m = {} THEN "other"
                  ELSE Rules(c)[CHOOSE i \in m : \A j \in m : i <= j].category

\* C20 amended: the category of a text is that of the earliest rule it
\* matches; a text that matches no rule gets "other" from the classifiers of
\* BostonTecStressTest and from DataCollector's console classifier, and
\* "navigation_request" from DataCollector's URL classifier.
C20_FirstMatchWins ==
    pc = "classify" =>
        \A k \in DOMAIN call_out.categories :
            LET c == call_in.classifier
                m == Matching(c, call_in.text)
            IN  call_out.categories[k].category =
                  IF m = {} THEN DefaultCategory(c)
                  ELSE Rules(c)[CHOOSE i \in m : \A j \in m : i <= j].category

\* C20 witness: a console text of the script that matches the zoovu and the
\* pdf rules was classified zoovu_error
C20_Witness ==
    /\ pc = "classify"
    /\ call_in.classifier = "BT_console"
    /\ {"Zoovu.com", "PDF"} \subseteq call_in.text
    /\ call_out.done
    /\ call_out.categories[1].category = "zoovu_error"

\* C21 as stated: an increment_quantity step on a section_product selector
\* succeeds iff the lookups report a section for some entry of the section
\* list and, in it, a control for some entry of the whole increment-control
\* list, and the click does not fault.
C21_IncrementIffFound ==
    (/\ unit_out.done
     /\ unit_step.action = "increment_quantity"
     /\ unit_step.step # Missing
     /\ unit_step.selector_type = "section_product") =>
        LET d == unit_drv
            reported == {"locator", "count"} \cap d.faults = {}
        IN  /\ unit_out.te.ret = "True" <=>
                  (reported /\ d.secHit > 0 /\ (d.btnHit > 0 \/ d.later)
                   /\ "click" \notin d.faults)
            /\ unit_out.bt.ret = "True" <=>
                  (reported /\ d.matches > 0 /\ d.btnHit > 0
                   /\ "click" \notin d.faults)

\* C21 amended: TestExecutor succeeds iff the lookups report a section for
\* some entry of selectors_to_try and, in it, the test-id button or an entry
\* of alt_selectors, and the click does not fault; BostonTecStressTest
\* succeeds iff its one section selector matches, the test-id button is in the
\* section, and the click does not fault.  In both the click follows the
\* lookup of the first matching strategy, and there is at most one click.
C21_IncrementFirstMatch ==
    (/\ unit_out.done
     /\ unit_step.action = "increment_quantity"
     /\ unit_step.step # Missing
     /\ unit_step.selector_type = "section_product") =>
        LET d == unit_drv
            te == unit_out.te
            bt == unit_out.bt
            reported == {"locator", "count"} \cap d.faults = {}
            Clicks(calls) == Cardinality({j \in DOMAIN calls : calls[j] = "click"})
            Counts(calls) == Cardinality({j \in DOMAIN calls : calls[j] = "count"})
        IN  /\ te.ret = "True" <=>
                  (reported /\ d.secHit > 0 /\ (d.btnHit > 0 \/ d.later)
                   /\ "click" \notin d.faults)
            /\ bt.ret = "True" <=>
                  (reported /\ d.matches > 0 /\ d.btnHit = 1
                   /\ "click" \notin d.faults)
            /\ Clicks(te.calls) <= 1 /\ Clicks(bt.calls) <= 1
            /\ te.ret = "True" =>
                  /\ te.calls[Len(te.calls)] = "click"
                  /\ Counts(te.calls) =
                        IF d.btnHit > 0 THEN d.secHit + d.btnHit
                        ELSE NumSectionSelectors + NumButtonSelectors + 1

\* C21 witness: TestExecutor incremented through fallbacks of both lists
C21_Witness ==
    /\ unit_out.done
    /\ unit_step.action = "increment_quantity"
    /\ unit_step.selector_type = "section_product"
    /\ unit_drv.secHit > 1 /\ unit_drv.btnHit > 1
    /\ unit_out.te.ret = "True"
    /\ unit_out.bt.ret = "False"

\* C22: a click step whose selector_type is one of text, testid, composite,
\* id, class, section_product, whose selector matches an element, with no
\* driver fault, is clicked and returns success in both executors.
C22_SelectorTypesHandled ==
    (/\ unit_out.done
     /\ unit_step.action = "click"
     /\ unit_step.step # Missing
     /\ unit_step.selector_type \in
            {"text", "testid", "composite", "id", "class", "section_product"}
     /\ unit_drv.matches > 0
     /\ unit_drv.faults = {}) =>
        /\ unit_out.te.ret = "True"
        /\ unit_out.bt.ret = "True"
        /\ \E j \in DOMAIN unit_out.te.calls : unit_out.te.calls[j] = "click"
        /\ \E j \in DOMAIN unit_out.bt.calls : unit_out.bt.calls[j] = "click"

\* C23: execute_step on a step whose action is wait returns success for
\* every step record, whatever its duration field and the state of the page.
C23_WaitAlwaysSucceeds ==
    (unit_out.done /\ unit_step.action = "wait") =>
        /\ unit_out.te.ret = "True"
        /\ unit_out.bt.ret = "True"

\* C24 as stated: TestExecutor.execute_step on a scroll step returns success
\* for every direction, pixel value and driver behaviour, a fault of
\* page.evaluate included.
C24_ScrollAlwaysSucceeds ==
    (unit_out.done /\ unit_step.action = "scroll" /\ unit_step.step # Missing) =>
        unit_out.te.ret = "True"

\* C24 amended: TestExecutor.execute_step on a scroll step returns success
\* for every direction and pixel value unless page.evaluate faults, and then
\* it returns failure; page.evaluate is called once for the directions down
\* and up (and for an absent direction), and not at all for any other.
C24_ScrollUnlessEvaluateFaults ==
    (unit_out.done /\ unit_step.action = "scroll" /\ unit_step.step # Missing) =>
        LET scrolls == unit_step.direction \in {Missing, "down", "up"}
        IN  /\ unit_out.te.ret = "False" <=> (scrolls /\ "evaluate" \in unit_drv.faults)
            /\ unit_out.te.ret \in {"True", "False"}
            /\ unit_out.te.calls = IF scrolls THEN <<"evaluate">> ELSE <<>>

\* C24 witness: a scroll whose page.evaluate faulted, and a scroll in another
\* direction than down and up that succeeded without a driver call
C24_Witness ==
    /\ unit_out.done
    /\ unit_step.action = "scroll"
    /\ unit_step.step # Missing
    /\ unit_step.pixels = "text"
    /\ \/ /\ unit_step.direction = "up"
          /\ "evaluate" \in unit_drv.faults
          /\ unit_out.te.ret = "False"
       \/ /\ unit_step.direction = "left"
          /\ unit_out.te.ret = "True"

\* what execute_test_run of the script asks of the page when memory plays no
\* part: it depends on the outcomes of the steps only
RECURSIVE StepRequests(_)
StepRequests(log) ==
    IF log = <<>> THEN <<>>
    ELSE <<"evaluate:before_step", "execute_step">>
         \o (IF log[1].ret = "True" THEN <<"evaluate:after_step">> ELSE <<>>)
         \o StepRequests(Tail(log))

MemoryBlindRequests(log, ok) ==
    <<"evaluate:start", "wait_for_load_state", "evaluate:page_loaded">>
    \o StepRequests(log)
    \o (IF ok THEN <<"evaluate:completed">> ELSE <<>>)

\* C25 as stated: the outcome of a run of the script, the steps it invokes
\* and the requests it makes to the page are determined by the outcomes of
\* the steps, whatever the memory readings.
C25_MemoryAltersNothing ==
    (impl = "bt" /\ pc = "bt_run_end") =>
        /\ success = (/\ Len(stepLog) = Len(test_steps)
                      /\ \A j \in DOMAIN stepLog : stepLog[j].ret = "True")
        /\ driverLog = MemoryBlindRequests(stepLog, success)

\* C25 amended: the outcome of a run and the steps it invokes are determined
\* by the outcomes of the steps, and so are the requests made to the page
\* except for the garbage-collection scripts: one is evaluated after each
\* step whose "after_step" reading is above 70 percent, and only there.
C25_MemoryAddsOnlyGC ==
    (impl = "bt" /\ pc = "bt_run_end") =>
        LET plain == SelectSeq(driverLog, LAMBDA a : a # "evaluate:gc")
            gcs == SelectSeq(driverLog, LAMBDA a : a = "evaluate:gc")
            high == SelectSeq(lists.performance_metrics,
                              LAMBDA m : /\ m.during = run
                                         /\ m.step_name = "after_step"
                                         /\ Exceeds(m.memory_usage_percent, 70))
        IN  /\ success = (/\ Len(stepLog) = Len(test_steps)
                          /\ \A j \in DOMAIN stepLog : stepLog[j].ret = "True")
            /\ plain = MemoryBlindRequests(stepLog, success)
            /\ Len(gcs) = Len(high)
            /\ \A j \in DOMAIN driverLog :
                  driverLog[j] = "evaluate:gc" =>
                      (j > 1 /\ driverLog[j - 1] = "evaluate:after_step")

\* C25 witness: a run of the script that evaluated the garbage-collection
\* script after a step and succeeded
C25_Witness ==
    /\ impl = "bt" /\ pc = "bt_run_end"
    /\ success
    /\ \E j \in DOMAIN driverLog : driverLog[j] = "evaluate:gc"

\* C30: the performance_degradation list holds at most one event per run
\* number, and only for a run r >= 2 whose mean memory_usage_percent, once the
\* run is over, exceeds the mean of run r-1 by more than 10.
C30_OneDegradationPerRun ==
    (impl = "bt" /\ pc \in {"bt_run_end", "bt_loop", "done"}) =>
        /\ \A i, j \in DOMAIN performance_degradation :
              i # j => performance_degradation[i].run_number
                         # performance_degradation[j].run_number
        /\ \A i \in DOMAIN performance_degradation :
              LET r == performance_degradation[i].run_number
                  current == UsageOf(lists.performance_metrics, r)
                  previous == UsageOf(lists.performance_metrics, r - 1)
              IN  /\ r >= 2
                  /\ current # <<>> /\ previous # <<>>
                  /\ Exceeds(Minus(Mean(current), Mean(previous)), 10)

\* C26: at every run boundary successful_runs and failed_runs count the
\* completed runs that returned true and false, their sum (total_runs in the
\* script) is the number of runs completed, and in the summary after the last
\* run total_runs is their sum and the number of iterations executed.
C26_CountersMatchRuns ==
    (pc \in {"loop", "bt_loop"} \/ (pc = "done" /\ outcome = "summary")) =>
        /\ successful_runs = Cardinality({j \in DOMAIN verdicts : verdicts[j]})
        /\ failed_runs = Cardinality({j \in DOMAIN verdicts : ~verdicts[j]})
        /\ successful_runs + failed_runs = run
        /\ impl = "bt" => total_runs = successful_runs + failed_runs
        /\ pc = "done" =>
              /\ total_runs = successful_runs + failed_runs
              /\ total_runs = iterations

\* C26 witness: a summary over a successful and a failed run
C26_Witness ==
    /\ pc = "done" /\ outcome = "summary"
    /\ successful_runs = 1 /\ failed_runs = 1
    /\ total_runs = 2

\* C27: when the invocation has returned, on whatever path, a browser that
\* was started has been closed.
C27_BrowserClosedOnExit ==
    Returned => browser \in {"none", "closed"}

\* the initial navigation of TestEngine.run_test failed
NavigationFailed == impl = "engine" /\ pc = "done" /\ outcome = "aborted"

\* C28: a run-set of zero iterations, once set up and navigated, executes no
\* run and returns with its summary: total_runs = 0, success rate 0, and no
\* division fault.
C28_ZeroIterationsSummary ==
    (/\ Returned
     /\ outcome # "setup_error"
     /\ ~NavigationFailed
     /\ iterations = 0) =>
        /\ runLog = <<>>
        /\ outcome = "summary"
        /\ total_runs = 0
        /\ summary_success_rate(successful_runs, total_runs) = Fraction(0, 1)

\* C29: the summary returned by a call of TestEngine.run_test, a second call
\* on the same engine included, has total_runs equal to the number of entries
\* of test_results, whose run_number values are 1..total_runs in order.
C29_SummaryMatchesResults ==
    (impl = "engine" /\ pc = "done" /\ outcome = "summary") =>
        /\ total_runs = Len(test_results)
        /\ \A i \in DOMAIN test_results : test_results[i].run_number = i

====
